---- MODULE Spec2Model ----
(***************************************************************************)
(* A model of the NaiveBayes classifier of src/src/lib.rs: the two         *)
(* frequency tables, train, classify, p_label and the ranking by score.    *)
(* f64 scores are modelled as exact fractions <<numerator, denominator>>.  *)
(***************************************************************************)
EXTENDS Integers, Sequences, FiniteSets, TLC

VARIABLES label_counts, feature_counts, history, last_op, last_len,
          last_example, last_result, last_scores, nclassify

vars == <<label_counts, feature_counts, history, last_op, last_len,
          last_example, last_result, last_scores, nclassify>>

(* ------------------------------ bounds --------------------------------- *)

\* At most this many training examples are fed to one classifier (the
\* reference batch of tests::it_works is admitted whole on a fresh one).
MaxTotal == 3

(* ------------------------- labels and features ------------------------- *)

Labels == {"A", "B", "C"}

\* L: Ord -- the natural order of the labels (chars compare by code point).
LabelRank(l) == CASE l = "A" -> 1 [] l = "B" -> 2 [] l = "C" -> 3

X5 == <<"X", 5>>
X4 == <<"X", 4>>
X3 == <<"X", 3>>
Y4 == <<"Y", 4>>
Y3 == <<"Y", 3>>
Y2 == <<"Y", 2>>
Y1 == <<"Y", 1>>

\* An input value.  The extractor of the tests returns the value itself;
\* a value marked poison is one on which the caller's extractor panics.
Val(fs) == [feats |-> fs, poison |-> FALSE]
BadValue == [feats |-> <<>>, poison |-> TRUE]

\* NaiveBayesExtractor::extract
Extract(value) ==
    IF value.poison
    THEN [panicked |-> TRUE, features |-> <<>>]
    ELSE [panicked |-> FALSE, features |-> value.feats]

\* The training batch of tests::it_works.
RefTraining ==
    << <<"A", Val(<<X5, Y4>>)>>,
       <<"A", Val(<<X5, Y2>>)>>,
       <<"A", Val(<<X3, Y2>>)>>,
       <<"B", Val(<<X4, Y4>>)>>,
       <<"B", Val(<<X5, Y3>>)>> >>

\* The examples training batches are drawn from: three of the reference
\* examples, one whose extraction repeats a feature, one whose extraction
\* panics, and one of a third label with no feature at all.
Pool ==
    { <<"A", Val(<<X5, Y4>>)>>,
      <<"B", Val(<<X4, Y4>>)>>,
      <<"B", Val(<<X5, Y3>>)>>,
      <<"A", Val(<<X5, X5>>)>>,
      <<"B", BadValue>>,
      <<"C", Val(<<>>)>> }

Batches ==
    {<<>>} \cup {<<e>> : e \in Pool} \cup {<<e, f>> : e \in Pool, f \in Pool}
           \cup {RefTraining}

\* The values classify is called on.
Values ==
    { Val(<<X5, Y2>>), Val(<<X4, Y1>>), Val(<<X3, Y3>>), Val(<<X5, Y1>>),
      Val(<<>>), BadValue }

(* ------------------------------ fractions ------------------------------ *)

One == <<1, 1>>
Frac(n, d) == <<n, d>>
FracMul(a, b) == <<a[1] * b[1], a[2] * b[2]>>
FracLt(a, b) == a[1] * b[2] < b[1] * a[2]
FracEq(a, b) == a[1] * b[2] = b[1] * a[2]

(* ------------------------------ histograms ----------------------------- *)

EmptyHist == [l \in {} |-> 0]

\* A bump that stores 1 instead of adding 1.
HistBumpReset(h, item) ==
    [x \in (DOMAIN h) \cup {item} |-> IF x = item THEN 1 ELSE h[x]]

\* Histogram::bump
HistBump(h, item) ==
    IF item \in DOMAIN h
    THEN [h EXCEPT ![item] = @ + 1]
    ELSE [x \in (DOMAIN h) \cup {item} |-> IF x = item THEN 1 ELSE h[x]]

\* Histogram::count
HistCount(h, item) == IF item \in DOMAIN h THEN h[item] ELSE 0

\* Histogram::len -- the number of keys of the underlying map
HistLen(h) == Cardinality(DOMAIN h)

(* ------------------------------- p_label ------------------------------- *)

p_label(lc, label) == Frac(HistCount(lc, label), HistLen(lc))

(* -------------------------------- train -------------------------------- *)

\* The inner loop without its contains_key test: a fresh histogram replaces
\* the one the feature already has.
BumpFeatureReset(fc, feature, label) ==
    [x \in (DOMAIN fc) \cup {feature} |->
        IF x = feature THEN HistBump(EmptyHist, label) ELSE fc[x]]

\* lines 58-61: one pass of the inner loop of train
BumpFeature(fc, feature, label) ==
    LET fc1 == IF feature \in DOMAIN fc
               THEN fc
               ELSE [x \in (DOMAIN fc) \cup {feature} |->
                        IF x = feature THEN EmptyHist ELSE fc[x]]
    IN  [fc1 EXCEPT ![feature] = HistBump(@, label)]

RECURSIVE BumpFeatures(_, _, _)
BumpFeatures(fc, features, label) ==
    IF features = <<>>
    THEN fc
    ELSE BumpFeatures(BumpFeature(fc, Head(features), label),
                      Tail(features), label)

\* The outer loop without its line 56: the label is never bumped.
TrainExampleNoLabelBump(nb, ex) ==
    LET got == Extract(ex[2])
    IN  IF got.panicked
        THEN [lc |-> nb.lc, fc |-> nb.fc, panicked |-> TRUE]
        ELSE [lc |-> nb.lc,
              fc |-> BumpFeatures(nb.fc, got.features, ex[1]),
              panicked |-> FALSE]

\* lines 55-63: one pass of the outer loop of train.  The label is bumped
\* (line 56) before extract is called (line 57).
TrainExample(nb, ex) ==
    LET lc1 == HistBump(nb.lc, ex[1])
        got == Extract(ex[2])
    IN  IF got.panicked
        THEN [lc |-> lc1, fc |-> nb.fc, panicked |-> TRUE]
        ELSE [lc |-> lc1,
              fc |-> BumpFeatures(nb.fc, got.features, ex[1]),
              panicked |-> FALSE]

\* train: the examples in input order; a panic of extract unwinds the call.
RECURSIVE TrainBatch(_, _)
TrainBatch(nb, batch) ==
    IF batch = <<>> \/ nb.panicked
    THEN nb
    ELSE TrainBatch(TrainExample(nb, Head(batch)), Tail(batch))

\* The examples train began to process: up to and including the one on
\* which extract panicked.
RECURSIVE Begun(_)
Begun(batch) ==
    IF batch = <<>> THEN <<>>
    ELSE IF Extract(Head(batch)[2]).panicked THEN <<Head(batch)>>
    ELSE <<Head(batch)>> \o Begun(Tail(batch))

NoValue == Val(<<>>)
NoScores == [l \in {} |-> One]

Init ==
    /\ label_counts = EmptyHist
    /\ feature_counts = [f \in {} |-> EmptyHist]
    /\ history = <<>>
    /\ last_op = "new"
    /\ last_len = 0
    /\ last_example = NoValue
    /\ last_result = "none"
    /\ last_scores = NoScores
    /\ nclassify = 0

Train(batch) ==
    /\ \/ Len(history) + Len(batch) <= MaxTotal
       \/ history = <<>> /\ batch = RefTraining
    /\ LET nb == TrainBatch([lc |-> label_counts, fc |-> feature_counts,
                             panicked |-> FALSE], batch)
       IN  /\ label_counts' = nb.lc
           /\ feature_counts' = nb.fc
           /\ last_result' = IF nb.panicked THEN "PanicExtract" ELSE "Ok"
    /\ history' = history \o Begun(batch)
    /\ last_op' = "train"
    /\ last_len' = Len(batch)
    /\ last_example' = NoValue
    /\ last_scores' = NoScores
    /\ nclassify' = 0

(* ------------------------------- classify ------------------------------ *)

\* The keys of a BTreeMap in iteration order: ascending.
RECURSIVE SortedLabels(_)
SortedLabels(S) ==
    IF S = {} THEN <<>>
    ELSE LET m == CHOOSE x \in S : \A y \in S : LabelRank(x) <= LabelRank(y)
         IN  <<m>> \o SortedLabels(S \ {m})

\* A lookup that yields an empty histogram for a feature it does not hold.
LookupOrEmpty(fc, feature) ==
    IF feature \in DOMAIN fc
    THEN [some |-> TRUE, hist |-> fc[feature]]
    ELSE [some |-> TRUE, hist |-> EmptyHist]

\* line 71: HashMap::get
Lookup(fc, feature) ==
    IF feature \in DOMAIN fc
    THEN [some |-> TRUE, hist |-> fc[feature]]
    ELSE [some |-> FALSE, hist |-> EmptyHist]

\* The inner loop of classify without the prior of the label.
ScoreFeatureNoPrior(lc, fc, probs, feature) ==
    [label \in DOMAIN probs |->
        IF feature \in DOMAIN fc
        THEN FracMul(probs[label],
                     Frac(HistCount(fc[feature], label) + 1, lc[label] + 1))
        ELSE probs[label]]

\* lines 69-75: the inner loop of classify for one feature
ScoreFeature(lc, fc, probs, feature) ==
    [label \in DOMAIN probs |->
        LET label_total == lc[label] + 1
            got == Lookup(fc, feature)
        IN  IF got.some
            THEN LET count == HistCount(got.hist, label) + 1
                 IN  FracMul(probs[label],
                             FracMul(Frac(count, label_total),
                                     p_label(lc, label)))
            ELSE probs[label]]

\* lines 68-76
RECURSIVE ScoreFeatures(_, _, _, _)
ScoreFeatures(lc, fc, probs, features) ==
    IF features = <<>>
    THEN probs
    ELSE ScoreFeatures(lc, fc, ScoreFeature(lc, fc, probs, Head(features)),
                       Tail(features))

\* lines 90-97
cmp_f64(a, b) ==
    IF FracLt(a, b) THEN "Less"
    ELSE IF FracLt(b, a) THEN "Greater"
    ELSE "Equal"

\* lines 85-87: only the scores are compared
cmp_w_label(a, b) == cmp_f64(a[1], b[1])

\* An unstable insertion: an element goes before the elements equal to it.
RECURSIVE InsertSortedBeforeEqual(_, _)
InsertSortedBeforeEqual(sorted, x) ==
    IF sorted = <<>> THEN <<x>>
    ELSE IF cmp_w_label(Head(sorted), x) # "Less"
         THEN <<x>> \o sorted
         ELSE <<Head(sorted)>> \o InsertSortedBeforeEqual(Tail(sorted), x)

\* slice::sort_by is stable: an element goes after every element that does
\* not compare Greater than it.
RECURSIVE InsertSorted(_, _)
InsertSorted(sorted, x) ==
    IF sorted = <<>> THEN <<x>>
    ELSE IF cmp_w_label(Head(sorted), x) = "Greater"
         THEN <<x>> \o sorted
         ELSE <<Head(sorted)>> \o InsertSorted(Tail(sorted), x)

RECURSIVE SortBy(_, _)
SortBy(done, todo) ==
    IF todo = <<>> THEN done
    ELSE SortBy(InsertSorted(done, Head(todo)), Tail(todo))

\* line 78: the (score, label) pairs in the order of label_probs
Rankings(probs) ==
    LET ls == SortedLabels(DOMAIN probs)
    IN  [i \in 1..Len(ls) |-> <<probs[ls[i]], ls[i]>>]

\* lines 66-82: what classify returns, or how it fails
ClassifyOutcome(lc, fc, example) ==
    LET label_probs == [l \in DOMAIN lc |-> One]
        got == Extract(example)
    IN  IF got.panicked
        THEN [result |-> "PanicExtract", scores |-> NoScores]
        ELSE LET probs == ScoreFeatures(lc, fc, label_probs, got.features)
                 rankings == SortBy(<<>>, Rankings(probs))
             IN  IF rankings = <<>>
                 THEN [result |-> "PanicUnwrapNone", scores |-> probs]
                 ELSE [result |-> rankings[Len(rankings)][2],
                       scores |-> probs]

\* A classify that looks features up with an inserting access: every
\* extracted feature gets an entry in the feature table.
ClassifyInserting(example) ==
    /\ LET out == ClassifyOutcome(label_counts, feature_counts, example)
           fs == Extract(example).features
           new == {fs[i] : i \in 1..Len(fs)}
       IN  /\ last_result' = out.result
           /\ last_scores' = out.scores
           /\ feature_counts' =
                  [f \in (DOMAIN feature_counts) \cup new |->
                      IF f \in DOMAIN feature_counts
                      THEN feature_counts[f] ELSE EmptyHist]
    /\ last_op' = "classify"
    /\ last_example' = example
    /\ last_len' = 0
    /\ nclassify' = 1 - nclassify
    /\ UNCHANGED <<label_counts, history>>

Classify(example) ==
    /\ LET out == ClassifyOutcome(label_counts, feature_counts, example)
       IN  /\ last_result' = out.result
           /\ last_scores' = out.scores
    /\ last_op' = "classify"
    /\ last_example' = example
    /\ last_len' = 0
    /\ nclassify' = 1 - nclassify
    /\ UNCHANGED <<label_counts, feature_counts, history>>

Next ==
    \/ \E batch \in Batches : Train(batch)
    \/ \E example \in Values : Classify(example)

Spec == Init /\ [][Next]_vars

(* ------------------- vocabulary of the properties ---------------------- *)

Features == {X5, X4, X3, Y4, Y3, Y2, Y1}

\* feature_label_count(f, L) of a feature-conditional table
FCountIn(fc, f, l) == IF f \in DOMAIN fc THEN HistCount(fc[f], l) ELSE 0

Count(l) == HistCount(label_counts, l)
FCount(f, l) == FCountIn(feature_counts, f, l)

RECURSIVE SumCounts(_, _)
SumCounts(h, S) ==
    IF S = {} THEN 0
    ELSE LET x == CHOOSE y \in S : TRUE
         IN  h[x] + SumCounts(h, S \ {x})

\* The total-occurrences counter: the sum of all per-label counts.
TotalOccurrences == SumCounts(label_counts, DOMAIN label_counts)

Seen(f) == f \in DOMAIN feature_counts

ClassifiedOk == last_op = "classify" /\ last_result \in Labels

LastFeatures == Extract(last_example).features

HasUnseen(fs) == \E i \in 1..Len(fs) : ~Seen(fs[i])

NoPoison(batch) == \A i \in 1..Len(batch) : ~batch[i][2].poison

FreshNb == [lc |-> EmptyHist, fc |-> [f \in {} |-> EmptyHist],
            panicked |-> FALSE]

\* C1 (as claimed): no feature records a label more often than the label
\* table does: feature_label_count(f, L) <= count(L) for every f and L.
C1_CountConsistency ==
    \A f \in DOMAIN feature_counts : \A l \in Labels : FCount(f, l) <= Count(l)

\* C10 (as claimed): once N >= 1 examples were processed, p_label(L) is
\* count(L) / N with N the total number of occurrences.
C10_PriorIsCountOverTotal ==
    history # <<>> =>
        \A l \in Labels :
            FracEq(p_label(label_counts, l), Frac(Count(l), TotalOccurrences))

\* C2: classify fails, and returns no label, when nothing was trained; once
\* train has processed an example, a classify whose extraction returns
\* yields a label whose count is at least 1; the failure of the empty
\* ranking happens only on an untrained classifier.
C2_UntrainedFailsTrainedSucceeds ==
    last_op = "classify" =>
        /\ history = <<>> => last_result \in {"PanicUnwrapNone", "PanicExtract"}
        /\ last_result = "PanicUnwrapNone" => history = <<>>
        /\ (history # <<>> /\ ~last_example.poison) =>
               (last_result \in Labels /\ Count(last_result) >= 1)

\* C2 witness: a classify on a classifier that was never trained failed.
C2_Witness ==
    /\ last_op = "classify"
    /\ history = <<>>
    /\ last_result = "PanicUnwrapNone"

\* The score of the claims: the product, over the features of fs (all of
\* them, or only those seen in training), of
\* (count of L under f + 1) / (count(L) + 1) * count(L) / total occurrences.
RECURSIVE ClaimScore(_, _, _)
ClaimScore(l, fs, seenOnly) ==
    IF fs = <<>> THEN One
    ELSE IF seenOnly /\ ~Seen(Head(fs))
         THEN ClaimScore(l, Tail(fs), seenOnly)
         ELSE FracMul(FracMul(Frac(FCount(Head(fs), l) + 1, Count(l) + 1),
                              Frac(Count(l), TotalOccurrences)),
                      ClaimScore(l, Tail(fs), seenOnly))

\* The three classifications of the reference scenario.
ReferenceResults ==
    (history = RefTraining /\ last_op = "classify") =>
        /\ last_example = Val(<<X5, Y2>>) => last_result = "A"
        /\ last_example = Val(<<X4, Y1>>) => last_result = "B"
        /\ last_example = Val(<<X3, Y3>>) => last_result = "A"

\* Training so far neither panicked nor repeated a feature within an example.
CleanTraining ==
    /\ NoPoison(history)
    /\ \A f \in DOMAIN feature_counts : \A l \in Labels : FCount(f, l) <= Count(l)

\* C3 (as claimed): the returned label has the maximum score, every
\* extracted feature contributing its factor, seen in training or not.
\* Stated for classifiers whose training was clean, where it already fails.
C3_MaxScoreAllFeatures ==
    /\ (ClassifiedOk /\ CleanTraining) =>
           \A m \in DOMAIN label_counts :
               ~FracLt(ClaimScore(last_result, LastFeatures, FALSE),
                       ClaimScore(m, LastFeatures, FALSE))
    /\ ReferenceResults

\* C3 (amended): the returned label has the maximum score, where only the
\* extracted features that were seen in training contribute a factor; the
\* reference scenario classifies as A, B, A.
C3_MaxScoreSeenFeatures ==
    /\ ClassifiedOk =>
           \A m \in DOMAIN label_counts :
               ~FracLt(ClaimScore(last_result, LastFeatures, TRUE),
                       ClaimScore(m, LastFeatures, TRUE))
    /\ ReferenceResults

\* C3 witness: the reference classifier classified [('X',4),('Y',1)] as B.
C3_Witness ==
    /\ history = RefTraining
    /\ last_op = "classify"
    /\ last_example = Val(<<X4, Y1>>)
    /\ last_result = "B"

\* The factor the claim gives a feature for label L: add-one smoothing,
\* with or without the prior of the label.
SmoothedFactor(f, l, withPrior) ==
    IF withPrior
    THEN FracMul(Frac(FCount(f, l) + 1, Count(l) + 1), p_label(label_counts, l))
    ELSE Frac(FCount(f, l) + 1, Count(l) + 1)

RECURSIVE SmoothedProduct(_, _, _)
SmoothedProduct(l, fs, withPrior) ==
    IF fs = <<>> THEN One
    ELSE FracMul(SmoothedFactor(Head(fs), l, withPrior),
                 SmoothedProduct(l, Tail(fs), withPrior))

\* C4 (as claimed): a feature never seen in training still multiplies the
\* score of every label L by 1 / (count(L) + 1) (times the prior, or not).
\* Stated for classifiers whose training was clean, where it already fails.
C4_UnseenFeaturePenalizes ==
    (ClassifiedOk /\ CleanTraining /\ HasUnseen(LastFeatures)) =>
        \A l \in DOMAIN last_scores :
            \/ FracEq(last_scores[l], SmoothedProduct(l, LastFeatures, TRUE))
            \/ FracEq(last_scores[l], SmoothedProduct(l, LastFeatures, FALSE))

SeenOnly(fs) == SelectSeq(fs, Seen)

\* C4 (amended): a feature never seen in training is skipped: the scores
\* are those of the example with its unseen features left out.
C4_UnseenFeatureSkipped ==
    ClassifiedOk =>
        \A l \in DOMAIN last_scores :
            FracEq(last_scores[l], SmoothedProduct(l, SeenOnly(LastFeatures), TRUE))

\* C4 witness: a trained classifier classified an example with one feature
\* seen in training and one never seen.
C4_Witness ==
    /\ ClassifiedOk
    /\ HasUnseen(LastFeatures)
    /\ \E i \in 1..Len(LastFeatures) : Seen(LastFeatures[i])

MaxLabel(S) == CHOOSE x \in S : \A y \in S : LabelRank(y) <= LabelRank(x)

\* C9: the returned label has the maximal score and is the largest label
\* among those of exactly that score; when no feature contributes, every
\* score is 1 and the largest known label is returned.
C9_TieBreakLargestLabel ==
    ClassifiedOk =>
        /\ \A m \in DOMAIN last_scores :
               /\ ~FracLt(last_scores[last_result], last_scores[m])
               /\ FracEq(last_scores[m], last_scores[last_result])
                      => LabelRank(m) <= LabelRank(last_result)
        /\ SeenOnly(LastFeatures) = <<>> =>
               /\ \A m \in DOMAIN last_scores : last_scores[m] = One
               /\ last_result = MaxLabel(DOMAIN label_counts)

\* C9 witness: A and B tie for the maximal score, the larger label C scores
\* less, and B is returned.
C9_Witness ==
    /\ ClassifiedOk
    /\ DOMAIN last_scores = {"A", "B", "C"}
    /\ FracEq(last_scores["A"], last_scores["B"])
    /\ FracLt(last_scores["C"], last_scores["B"])
    /\ last_result = "B"

Orderings(n) ==
    {p \in [1..n -> 1..n] : \A i, j \in 1..n : p[i] = p[j] => i = j}

Permuted(seq, p) == [i \in 1..Len(seq) |-> seq[p[i]]]

\* C5: training a fresh classifier on any permutation of the examples seen
\* so far, in one train call or split over two, yields the label table and
\* the feature-conditional table of this classifier.
C5_OrderInvariance ==
    NoPoison(history) =>
        \A p \in Orderings(Len(history)) :
            \A k \in 0..Len(history) :
                LET q == Permuted(history, p)
                    first == TrainBatch(FreshNb, SubSeq(q, 1, k))
                    both == TrainBatch(first, SubSeq(q, k + 1, Len(q)))
                IN  /\ both.lc = label_counts
                    /\ both.fc = feature_counts

\* C5 witness: three examples were trained, of two labels sharing a feature,
\* the first two different from each other.
C5_Witness ==
    /\ NoPoison(history)
    /\ Len(history) = 3
    /\ history[1] # history[2]
    /\ history[1][1] # history[3][1]
    /\ \E f \in DOMAIN feature_counts : Cardinality(DOMAIN feature_counts[f]) = 2

\* C6: a classify call, whether it returns or fails, leaves both tables as
\* they were, and classifying the same example again returns the same.
C6_ClassifyIsPureRead ==
    [][last_op' = "classify" =>
          /\ label_counts' = label_counts
          /\ feature_counts' = feature_counts
          /\ (last_op = "classify" /\ last_example' = last_example)
                 => last_result' = last_result]_vars

\* C6 witness: the second of two classify calls in a row returned a label
\* for an example with a feature the tables do not hold.
C6_Witness ==
    /\ ClassifiedOk
    /\ nclassify = 0
    /\ HasUnseen(LastFeatures)

\* The examples the train call of this step began to process.
StepBegun == SubSeq(history', Len(history) + 1, Len(history'))

\* C7 (as claimed): when extract fails on an example, train leaves the tables
\* as the examples before it made them: the failing one leaves no trace.
C7_FailingExampleLeavesNoTrace ==
    [][(last_op' = "train" /\ last_result' = "PanicExtract") =>
          LET before == SubSeq(StepBegun, 1, Len(StepBegun) - 1)
              nb == TrainBatch([lc |-> label_counts, fc |-> feature_counts,
                                panicked |-> FALSE], before)
          IN  /\ label_counts' = nb.lc
              /\ feature_counts' = nb.fc]_vars

Occurrences(seq, x) == Cardinality({i \in 1..Len(seq) : seq[i] = x})

\* How often the examples of batch with label l yield feature f.
RECURSIVE FeatureOccurrences(_, _, _)
FeatureOccurrences(batch, f, l) ==
    IF batch = <<>> THEN 0
    ELSE (IF Head(batch)[1] = l
          THEN Occurrences(Extract(Head(batch)[2]).features, f) ELSE 0)
         + FeatureOccurrences(Tail(batch), f, l)

LabelOccurrences(batch, l) ==
    Cardinality({i \in 1..Len(batch) : batch[i][1] = l})

\* C8: a train step removes no entry and lowers no count; each example it
\* processes raises the count of its label by exactly 1 and, per extracted
\* feature occurrence, the count of the label under the feature by exactly
\* 1, and nothing else changes.
C8_Monotone ==
    [][last_op' = "train" =>
          /\ \A l \in DOMAIN label_counts :
                 l \in DOMAIN label_counts' /\ label_counts'[l] >= label_counts[l]
          /\ \A f \in DOMAIN feature_counts :
                 /\ f \in DOMAIN feature_counts'
                 /\ \A l \in DOMAIN feature_counts[f] :
                        /\ l \in DOMAIN feature_counts'[f]
                        /\ feature_counts'[f][l] >= feature_counts[f][l]
          /\ \A l \in Labels :
                 /\ HistCount(label_counts', l)
                        = HistCount(label_counts, l) + LabelOccurrences(StepBegun, l)
                 /\ \A f \in Features :
                        FCountIn(feature_counts', f, l)
                            = FCountIn(feature_counts, f, l)
                                  + FeatureOccurrences(StepBegun, f, l)]_vars

\* C8 witness: a train call of two examples ended on a classifier that held
\* one before, with a feature counted twice for a label.
C8_Witness ==
    /\ last_op = "train"
    /\ last_result = "Ok"
    /\ last_len = 2
    /\ Len(history) = 3
    /\ \E f \in DOMAIN feature_counts : FCount(f, "A") >= 2

====
